---- MODULE Spec2Model ----
(***************************************************************************)
(* manim_stock: the constructors of the scene classes (the assertions of   *)
(* StockVisualization, Lineplot and Barplot), the sampling of the CSV      *)
(* series (StockVisualization.preprocess_data), the axis rescale State     *)
(* that GrowingLineplot.construct and GrowingBarplot.construct carry       *)
(* through their growth loop, and the table functions of util/finance.py.  *)
(*                                                                         *)
(* Indices are the 0-based indices of the Python code; a TLA+ sequence is  *)
(* 1-based, so row i of an array A is A[i + 1].                            *)
(***************************************************************************)

EXTENDS Integers, Sequences, FiniteSets, TLC

\* ------------------------------------------------------------------ bounds
\* ticker cells of the CSV file: rows * tickers <= MaxCells
MaxCells == 5
\* cell values of the CSV file are 0..MaxVal
MaxVal == 2
\* num_ticks is 1..MaxTicks
MaxTicks == 4
\* num_samples is 1..MaxSamples
MaxSamples == 5
\* rows of the series in the sampling specification
MaxLen == 12
\* num_samples in the sampling specification
MaxNum == 12
\* the cells of one field of a downloaded table: rows * tickers <= MaxFrameCells
MaxFrameCells == 4
\* rows of the file in the constructor specification
MaxRows == 2
\* ticker columns (or tickers) in the constructor specification
MaxTickers == 6
\* entries of a supplied colour list
MaxColors == 6

\* the number of ticks every axis of a fresh State starts with
InitialTicks == 3

\* the num_samples of the render tests
TestSamples == 10

VARIABLES
    variant,        \* "line" (GrowingLineplot) or "bar" (GrowingBarplot)
    tickers,        \* the number of ticker columns of the file at self.path
    num_ticks,      \* self.num_ticks
    num_samples,    \* self.num_samples
    csv,            \* the Y columns of the file at self.path, row by row
    X,              \* self.X: the period column of self.df; a period is the row number in the file
    Y,              \* self.Y: the ticker columns of self.df
    next_indicies,  \* self.next_indicies
    state,          \* the local `state` of construct
    i,              \* the loop variable of construct
    plays,          \* the calls of self.play so far: the animation, its run_time, the samples and the axes shown
    pc,             \* where the scene is: "new", "ready", "loop", "done", "error"
    err,            \* the exception that ended the scene, "" if none
    cfg,            \* the other keyword arguments of __init__: path, run times, camera scale, colors
    attrs,          \* the names of the attributes __init__ has assigned to self
    download,       \* the table download_stock_data returned
    frame,          \* the DataFrame df that the functions of util/finance.py are handed and return
    init_cash       \* the init_cash argument of preprocess_portfolio_value

vars == <<variant, tickers, num_ticks, num_samples, csv, X, Y, next_indicies, state, i, plays, pc, err,
          cfg, attrs, download, frame, init_cash>>

\* ----------------------------------------------------------------- helpers
Min(a, b) == IF a <= b THEN a ELSE b

Max(a, b) == IF a >= b THEN a ELSE b

\* np.max over a non-empty 1-d array
RECURSIVE SeqMax(_)
SeqMax(s) == IF Len(s) = 1 THEN s[1] ELSE Max(s[1], SeqMax(Tail(s)))

\* np.max(A[:k, :]) for 1 <= k <= len(A): the largest cell of the first k rows
RECURSIVE RowsMax(_, _)
RowsMax(A, k) == IF k = 1 THEN SeqMax(A[1]) ELSE Max(RowsMax(A, k - 1), SeqMax(A[k]))

\* linspace with endpoint=False: the step is (stop - start) / num and the
\* last position is not set to stop
linspace_NoEndpoint(start, stop, num) ==
    IF num = 0 THEN <<>>
    ELSE [k \in 1..num |-> start + ((k - 1) * (stop - start)) \div num]

\* np.linspace(start, stop, num=num, endpoint=True, dtype=int) for 0 <= start:
\* num evenly spaced positions k * step, floored; the last one is set to stop
\* itself. numpy multiplies by the double step = (stop - start) / (num - 1);
\* for stop - start < 30 the floor of that product is the exact quotient
\* used here
linspace(start, stop, num) ==
    IF num = 0 THEN <<>>
    ELSE IF num = 1 THEN <<start>>
    ELSE [k \in 1..num |->
            IF k = num THEN stop
            ELSE start + ((k - 1) * (stop - start)) \div (num - 1)]

\* np.arange(n)
arange(n) == [k \in 1..n |-> k - 1]

\* sample_indices with num bounded by the last index instead of the length
sample_indices_LastIndex(n, samples) == linspace(0, n - 1, Min(samples, n - 1))

\* the sample_indices of preprocess_data for a frame of n rows
sample_indices(n, samples) == linspace(0, n - 1, Min(samples, n))

\* df.iloc[indices] on an array of rows
iloc(A, indices) == [k \in 1..Len(indices) |-> A[indices[k] + 1]]

\* the period column of a file: a period is the number of its row
Periods(A) == arange(Len(A))

\* int(self.num_samples / self.num_ticks)
NextIndicies(samples, ticks) == samples \div ticks

\* ------------------------------------------------------------------- State
NoState == [none |-> TRUE]

\* np.min over a non-empty 1-d array
RECURSIVE SeqMin(_)
SeqMin(s) == IF Len(s) = 1 THEN s[1] ELSE Min(s[1], SeqMin(Tail(s)))

\* the initial State with y_min taken from the data, as y_max is
InitialState_MinFromData(v, Xi, A, nxt) ==
    IF v = "line"
    THEN [x_min |-> 0,
          x_max |-> Xi[3 * nxt + 1],
          num_x_ticks |-> InitialTicks,
          y_min |-> SeqMin(A[3 * nxt + 1]),
          y_max |-> SeqMax(A[3 * nxt + 1]),
          num_y_ticks |-> InitialTicks]
    ELSE [y_min |-> SeqMin(A[3 * nxt + 1]),
          y_max |-> SeqMax(A[3 * nxt + 1]),
          num_y_ticks |-> InitialTicks,
          y_round |-> FALSE]

\* the initial State with no ticks yet
InitialState_NoTicks(v, Xi, A, nxt) ==
    IF v = "line"
    THEN [x_min |-> 0,
          x_max |-> Xi[3 * nxt + 1],
          num_x_ticks |-> 0,
          y_min |-> 0,
          y_max |-> SeqMax(A[3 * nxt + 1]),
          num_y_ticks |-> 0]
    ELSE [y_min |-> 0,
          y_max |-> SeqMax(A[3 * nxt + 1]),
          num_y_ticks |-> 0,
          y_round |-> FALSE]

\* State(...) as construct first builds it
InitialState(v, Xi, A, nxt) ==
    IF v = "line"
    THEN [x_min |-> 0,
          x_max |-> Xi[3 * nxt + 1],
          num_x_ticks |-> InitialTicks,
          y_min |-> 0,
          y_max |-> SeqMax(A[3 * nxt + 1]),
          num_y_ticks |-> InitialTicks]
    ELSE [y_min |-> 0,
          y_max |-> SeqMax(A[3 * nxt + 1]),
          num_y_ticks |-> InitialTicks,
          y_round |-> FALSE]

\* replace that copies num_x_ticks, when it is not named, from the wrong
\* field: num_y_ticks
replace_WrongField(st, changes) ==
    [f \in DOMAIN st |->
        IF f \in DOMAIN changes THEN changes[f]
        ELSE IF f = "num_x_ticks" THEN st.num_y_ticks
        ELSE st[f]]

\* State.replace(**kwargs), dataclasses.replace on the frozen State: a new
\* State with the fields named in changes replaced, the others as in st
replace(st, changes) ==
    [f \in DOMAIN st |-> IF f \in DOMAIN changes THEN changes[f] ELSE st[f]]

\* ScaleY with y_max set to the largest value of row j alone
ScaleY_RowOnly(st, A, j, nxt, ticks) ==
    IF SeqMax(A[j + 1]) >= st.y_max
    THEN [st EXCEPT
            !.num_y_ticks = IF @ < ticks THEN @ + 1 ELSE @,
            !.y_max = SeqMax(A[j + 1])]
    ELSE st

\* ScaleY with the window [0, j): neither row j nor the look-ahead
ScaleY_NoLookahead(st, A, j, nxt, ticks) ==
    IF SeqMax(A[j + 1]) >= st.y_max
    THEN [st EXCEPT
            !.num_y_ticks = IF @ < ticks THEN @ + 1 ELSE @,
            !.y_max = RowsMax(A, Min(j, Len(A)))]
    ELSE st

\* ScaleY without the test against y_max: every row rescales
ScaleY_Always(st, A, j, nxt, ticks) ==
    [st EXCEPT
        !.num_y_ticks = IF @ < ticks THEN @ + 1 ELSE @,
        !.y_max = RowsMax(A, Min(j + nxt, Len(A)))]

\* ScaleY without the test against num_ticks: the tick count always grows
ScaleY_NoCeiling(st, A, j, nxt, ticks) ==
    IF SeqMax(A[j + 1]) >= st.y_max
    THEN [st EXCEPT
            !.num_y_ticks = @ + 1,
            !.y_max = RowsMax(A, Min(j + nxt, Len(A)))]
    ELSE st

\* "Scale y-axis" of the loop body, at row j
ScaleY(st, A, j, nxt, ticks) ==
    IF SeqMax(A[j + 1]) >= st.y_max
    THEN LET more == IF st.num_y_ticks < ticks
                     THEN replace(st, [num_y_ticks |-> st.num_y_ticks + 1])
                     ELSE st
         IN  replace(more, [y_max |-> RowsMax(A, Min(j + nxt, Len(A)))])
    ELSE st

\* ScaleX with the window [0, j): neither index j nor the look-ahead
ScaleX_NoLookahead(st, Xi, j, nxt, ticks) ==
    IF Xi[j + 1] >= st.x_max
    THEN LET more == IF st.num_x_ticks < ticks
                     THEN replace(st, [num_x_ticks |-> st.num_x_ticks + 1])
                     ELSE st
         IN  replace(more, [x_max |-> SeqMax(SubSeq(Xi, 1, Min(j, Len(Xi))))])
    ELSE st

\* ScaleX with x_max set to the end of the slice, one past its last index
ScaleX_PastEnd(st, Xi, j, nxt, ticks) ==
    IF Xi[j + 1] >= st.x_max
    THEN LET more == IF st.num_x_ticks < ticks
                     THEN replace(st, [num_x_ticks |-> st.num_x_ticks + 1])
                     ELSE st
         IN  replace(more, [x_max |-> Min(j + nxt, Len(Xi))])
    ELSE st

\* "Scale x-axis" of the loop body, at row j
ScaleX(st, Xi, j, nxt, ticks) ==
    IF Xi[j + 1] >= st.x_max
    THEN LET more == IF st.num_x_ticks < ticks
                     THEN replace(st, [num_x_ticks |-> st.num_x_ticks + 1])
                     ELSE st
         IN  replace(more, [x_max |-> SeqMax(SubSeq(Xi, 1, Min(j + nxt, Len(Xi))))])
    ELSE st

\* the State after the rescaling of loop iteration j
StepState(v, st, Xi, A, j, nxt, ticks) ==
    IF v = "line"
    THEN ScaleX(ScaleY(st, A, j, nxt, ticks), Xi, j, nxt, ticks)
    ELSE ScaleY(st, A, j, nxt, ticks)

\* self.X_indices
X_indices == arange(Len(X))

\* State.x_tick / State.y_tick is 0 / num_ticks: the axis range handed to
\* manim has step 0
ZeroTick(st) ==
    \/ st.y_max - st.y_min = 0
    \/ "x_max" \in DOMAIN st /\ st.x_max - st.x_min = 0

\* ----------------------------------------------------------- configuration
\* the default palette of StockVisualization.__init__
DefaultColors == <<"#1f77b4", "#ff7f0e", "#2ca02c", "#d62728", "#9467bd">>

\* the colors argument: None, one colour string, or a list of colour strings
NoColors == [kind |-> "None", list |-> <<>>]

OneColor == [kind |-> "str", list |-> <<"#ffffff">>]

ColorList(k) == [kind |-> "list", list |-> [j \in 1..k |-> "#ffffff"]]

\* s[:k] of Python
Prefix(s, k) == SubSeq(s, 1, Min(k, Len(s)))

\* the list StockVisualization.__init__ makes of the colors argument, for k
\* ticker columns
Colors(c, k) == IF c.kind = "None" THEN Prefix(DefaultColors, k) ELSE c.list

\* the keyword arguments when every one is left at a valid value: an
\* existing .csv file, positive run times and camera scale, colors=None
DefaultConfig ==
    [path                |-> [exists |-> TRUE, suffix |-> ".csv"],
     background_run_time |-> 1,
     animation_run_time  |-> 1,
     wait_run_time       |-> 1,
     camera_scale        |-> 1,
     colors              |-> NoColors]

\* the assertions of StockVisualization.__init__ before the first assignment
ArgsOk_ZeroWait(c, ticks, samples) ==
    /\ c.path.exists
    /\ c.path.suffix = ".csv"
    /\ c.background_run_time > 0
    /\ c.animation_run_time > 0
    /\ c.wait_run_time >= 0
    /\ c.camera_scale > 0
    /\ ticks > 0
    /\ samples > 0

ArgsOk_AnyPath(c, ticks, samples) ==
    /\ c.background_run_time > 0
    /\ c.animation_run_time > 0
    /\ c.wait_run_time > 0
    /\ c.camera_scale > 0
    /\ ticks > 0
    /\ samples > 0

ArgsOk(c, ticks, samples) ==
    /\ c.path.exists
    /\ c.path.suffix = ".csv"
    /\ c.background_run_time > 0
    /\ c.animation_run_time > 0
    /\ c.wait_run_time > 0
    /\ c.camera_scale > 0
    /\ ticks > 0
    /\ samples > 0

\* the assertion of StockVisualization.__init__ on the colours, for k ticker
\* columns (self.Y.shape[-1])
ColorsOk_AtLeast(c, k) == Len(Colors(c, k)) >= k

ColorsOk(c, k) == Len(Colors(c, k)) = k

\* the assertions of Lineplot.__init__ and Barplot.__init__ on k tickers;
\* their graph_run_time / bar_run_time is animation_run_time here, their
\* camera_frame_scale is camera_scale, their graph_colors / bar_colors is
\* colors, and the bar geometry of Barplot is left at its defaults
PlotArgsOk(c, k, ticks, samples) ==
    /\ k < 4
    /\ c.background_run_time > 0
    /\ c.animation_run_time > 0
    /\ c.wait_run_time > 0
    /\ c.camera_scale > 0
    /\ c.colors.kind # "None" => Len(c.colors.list) >= k
    /\ ticks > 0
    /\ samples > 0

\* the attributes StockVisualization.__init__ assigns before load_data
ConfigAttrs ==
    {"path", "title", "x_label", "y_label", "background_run_time",
     "animation_run_time", "wait_run_time", "camera_scale", "num_ticks",
     "num_samples", "x_round", "y_round"}

\* the attributes load_data and preprocess_data assign
DataAttrs == {"df", "X", "X_indices", "Y", "names"}

\* the classes that read a CSV file, and the classes that download
Growing == {"line", "bar"}

Plots == {"Lineplot", "Barplot"}

\* no table
NoFrame == [none |-> TRUE]

\* -------------------------------------------------------------------- axes
\* the quotient a / b of two integers, kept exact
Ratio(a, b) == [num |-> a, den |-> b]

\* np.linspace(start, stop, num, endpoint=True, dtype=float) of integers
\* start and stop: the positions, each an exact quotient
linspace_float(start, stop, num) ==
    [k \in 1..num |->
        IF num = 1 THEN Ratio(start, 1)
        ELSE Ratio(start * (num - 1) + (k - 1) * (stop - start), num - 1)]

\* np.round(p, 2) of a position p >= 0: the nearest multiple of 1/100, the
\* even one of two equally near, as a number of hundredths
round2(p) ==
    LET q == (100 * p.num) \div p.den
        r == (100 * p.num) % p.den
    IN  Ratio(IF 2 * r < p.den \/ (2 * r = p.den /\ q % 2 = 0) THEN q ELSE q + 1, 100)

\* add_x_labels: the indices into x of the labels
x_label_indices(x_min, x_max, num_x_ticks) == Tail(linspace(x_min, x_max, num_x_ticks + 1))

\* add_x_labels with x_round left at False: the labels handed to the ticks
\* of the x axis, int(np.round(x[index], 2)) of integer periods x
add_x_labels(x, x_min, x_max, num_x_ticks) ==
    LET idx == x_label_indices(x_min, x_max, num_x_ticks)
    IN  [k \in 1..Len(idx) |-> x[idx[k] + 1]]

add_y_labels_KeepFirst(y_min, y_max, num_y_ticks) ==
    LET y_labels == linspace_float(y_min, y_max, num_y_ticks + 1)
    IN  [k \in 1..(Len(y_labels) - 1) |-> round2(y_labels[k])]

\* add_y_labels with y_round left at False: the labels handed to the ticks
\* of the y axis
add_y_labels(y_min, y_max, num_y_ticks) ==
    LET y_labels == Tail(linspace_float(y_min, y_max, num_y_ticks + 1))
    IN  [k \in 1..Len(y_labels) |-> round2(y_labels[k])]

\* no axes
NoAxes == [none |-> TRUE]

\* State.axes of GrowingLineplot: the ranges create_axes is handed and the
\* labels update_x_labels and update_y_labels put on the axes
axes(st, x) ==
    [x_range  |-> <<st.x_min, st.x_max, Ratio(st.x_max - st.x_min, st.num_x_ticks)>>,
     y_range  |-> <<st.y_min, st.y_max, Ratio(st.y_max - st.y_min, st.num_y_ticks)>>,
     x_labels |-> add_x_labels(x, st.x_min, st.x_max, st.num_x_ticks),
     y_labels |-> add_y_labels(st.y_min, st.y_max, st.num_y_ticks)]

\* ------------------------------------------------------------------ inputs
Vals == 0..MaxVal

\* the numbers of ticker columns a file has
TickerCounts == {1, 2}

\* the files of k ticker columns: n rows of k cells each
Files(k) == UNION {[1..n -> [1..k -> Vals]] : n \in 0..(MaxCells \div k)}

Init ==
    /\ variant \in {"line", "bar"}
    /\ num_ticks \in 1..MaxTicks
    /\ num_samples \in 1..MaxSamples
    /\ tickers \in TickerCounts
    /\ csv \in Files(tickers)
    /\ X = <<>>
    /\ Y = <<>>
    /\ next_indicies = 0
    /\ state = NoState
    /\ i = 0
    /\ plays = <<>>
    /\ pc = "new"
    /\ err = ""
    /\ cfg = DefaultConfig
    /\ attrs = {}
    /\ download = NoFrame
    /\ frame = NoFrame
    /\ init_cash = 0

\* ----------------------------------------------------------------- actions
\* StockVisualization.__init__ and the __init__ of GrowingLineplot or
\* GrowingBarplot after it, when every assertion passes: the attributes,
\* load_data, preprocess_data, the colours, next_indicies
SceneInit ==
    /\ pc = "new"
    /\ variant \in Growing
    /\ ArgsOk(cfg, num_ticks, num_samples)
    /\ ColorsOk(cfg.colors, tickers)
    /\ LET idx == sample_indices(Len(csv), num_samples)
       IN /\ X' = iloc(Periods(csv), idx)
          /\ Y' = iloc(csv, idx)
    /\ attrs' = ConfigAttrs \cup DataAttrs \cup {"colors", "next_indicies"}
    /\ next_indicies' = NextIndicies(num_samples, num_ticks)
    /\ pc' = "ready"
    /\ UNCHANGED <<cfg, download, frame, init_cash, variant, tickers, num_ticks, num_samples, csv, state, i, plays, err>>

\* construct: row 3 * next_indicies does not exist
ConstructIndexError ==
    /\ pc = "ready"
    /\ 3 * next_indicies > Len(Y) - 1
    /\ pc' = "error"
    /\ err' = "IndexError"
    /\ UNCHANGED <<cfg, attrs, download, frame, init_cash, variant, tickers, num_ticks, num_samples, csv, X, Y, next_indicies, state, i, plays>>

\* GrowingBarplot.construct: the initial State, then State.barchart, which
\* hands update_bar_values five arguments while update_bar_values takes four
\* (before that, manim may refuse a y range of step 0)
ConstructBarchartTypeError ==
    /\ pc = "ready"
    /\ variant = "bar"
    /\ 3 * next_indicies <= Len(Y) - 1
    /\ state' = InitialState(variant, X_indices, Y, next_indicies)
    /\ pc' = "error"
    /\ err' \in IF ZeroTick(state') THEN {"ZeroRange", "TypeError"} ELSE {"TypeError"}
    /\ UNCHANGED <<cfg, attrs, download, frame, init_cash, variant, tickers, num_ticks, num_samples, csv, X, Y, next_indicies, i, plays>>

\* GrowingLineplot.construct up to the first play: the initial State, its
\* axes, Write(...)
ConstructBackground ==
    /\ pc = "ready"
    /\ variant = "line"
    /\ 3 * next_indicies <= Len(Y) - 1
    /\ state' = InitialState(variant, X_indices, Y, next_indicies)
    /\ ~ZeroTick(state')
    /\ plays' = Append(plays, [anim     |-> "Write",
                                run_time |-> Ratio(cfg.background_run_time, 1),
                                shown    |-> 1,
                                ax       |-> axes(state', X)])
    /\ i' = 1
    /\ pc' = "loop"
    /\ UNCHANGED <<cfg, attrs, download, frame, init_cash, variant, tickers, num_ticks, num_samples, csv, X, Y, next_indicies, err>>

\* the same, when an axis range of the initial State has step 0: manim's
\* Axes cannot lay out ticks of step 0, state.axes raises and construct ends
\* before its first play
ConstructZeroRange ==
    /\ pc = "ready"
    /\ variant = "line"
    /\ 3 * next_indicies <= Len(Y) - 1
    /\ state' = InitialState(variant, X_indices, Y, next_indicies)
    /\ ZeroTick(state')
    /\ pc' = "error"
    /\ err' = "ZeroRange"
    /\ UNCHANGED <<cfg, attrs, download, frame, init_cash, variant, tickers, num_ticks, num_samples, csv, X, Y, next_indicies, i, plays>>

\* one iteration of the growth loop. The axes of the new State have ranges
\* of a positive step: the first State had (ConstructBackground), the mins
\* stay 0 and a rescale never lowers a max
GrowStep ==
    /\ pc = "loop"
    /\ i < Len(Y)
    /\ state' = StepState(variant, state, X_indices, Y, i, next_indicies, num_ticks)
    /\ ~ZeroTick(state')
    /\ plays' = Append(plays, [anim     |-> "Grow",
                                run_time |-> Ratio(cfg.animation_run_time, Len(Y)),
                                shown    |-> i + 1,
                                ax       |-> IF variant = "line" THEN axes(state', X) ELSE NoAxes])
    /\ i' = i + 1
    /\ UNCHANGED <<cfg, attrs, download, frame, init_cash, variant, tickers, num_ticks, num_samples, csv, X, Y, next_indicies, pc, err>>

\* the loop is over: FadeOut(...)
FadeOutStep ==
    /\ pc = "loop"
    /\ i >= Len(Y)
    /\ plays' = Append(plays, [anim     |-> "FadeOut",
                                run_time |-> Ratio(cfg.wait_run_time, 1),
                                shown    |-> 0,
                                ax       |-> NoAxes])
    /\ pc' = "done"
    /\ UNCHANGED <<cfg, attrs, download, frame, init_cash, variant, tickers, num_ticks, num_samples, csv, X, Y, next_indicies, state, i, err>>

Next ==
    \/ SceneInit
    \/ ConstructIndexError
    \/ ConstructBarchartTypeError
    \/ ConstructBackground
    \/ ConstructZeroRange
    \/ GrowStep
    \/ FadeOutStep

Spec == Init /\ [][Next]_vars

\* ---------------------------------------------------------------- sampling
\* a series of n rows whose cells are all 0: only its length matters
Series(n) == [r \in 1..n |-> <<0>>]

InitSample ==
    /\ variant = "line"
    /\ tickers = 1
    /\ num_ticks = 6    \* the default of __init__
    /\ num_samples \in 1..MaxNum
    /\ csv \in {Series(n) : n \in 0..MaxLen}
    /\ X = <<>>
    /\ Y = <<>>
    /\ next_indicies = 0
    /\ state = NoState
    /\ i = 0
    /\ plays = <<>>
    /\ pc = "new"
    /\ err = ""
    /\ cfg = DefaultConfig
    /\ attrs = {}
    /\ download = NoFrame
    /\ frame = NoFrame
    /\ init_cash = 0

NextSample == SceneInit

\* preprocess_data on series of up to MaxLen rows
SpecSample == InitSample /\ [][NextSample]_vars

\* ------------------------------------------------------------ constructors
\* a file of n rows and k ticker columns whose cells are all 1
Table(n, k) == [r \in 1..n |-> [c \in 1..k |-> 1]]

\* the keyword arguments, valid or not, with colors=None
Configs ==
    [path                : [exists : BOOLEAN, suffix : {".csv", ".txt"}],
     background_run_time : {0, 1},
     animation_run_time  : {0, 1},
     wait_run_time       : {0, 1},
     camera_scale        : -1..1,
     colors              : {NoColors}]

\* the colors arguments
ColorArgs == {NoColors, OneColor} \cup {ColorList(k) : k \in 0..MaxColors}

\* every keyword argument but colors varies, over one ticker column;
\* Lineplot and Barplot take no path
InitConfig ==
    /\ variant \in Growing \cup Plots
    /\ cfg \in Configs
    /\ variant \in Plots => cfg.path = DefaultConfig.path
    /\ num_ticks \in 0..MaxTicks
    /\ num_samples \in 0..MaxSamples
    /\ tickers = 1
    /\ csv \in {Table(n, 1) : n \in (0..MaxRows) \cup {TestSamples}}

\* colors and the number of tickers vary, the other arguments are valid;
\* graph_colors and bar_colors are None or a list
InitColors ==
    /\ variant \in Growing \cup Plots
    /\ \E c \in ColorArgs : cfg = [DefaultConfig EXCEPT !.colors = c]
    /\ variant \in Plots => cfg.colors.kind # "str"
    /\ num_ticks = InitialTicks
    /\ num_samples \in {1, TestSamples}
    /\ tickers \in 1..MaxTickers
    /\ csv \in {Table(n, tickers) : n \in (0..MaxRows) \cup {TestSamples}}

InitScene ==
    /\ InitConfig \/ InitColors
    /\ X = <<>>
    /\ Y = <<>>
    /\ next_indicies = 0
    /\ state = NoState
    /\ i = 0
    /\ plays = <<>>
    /\ pc = "new"
    /\ err = ""
    /\ attrs = {}
    /\ download = NoFrame
    /\ frame = NoFrame
    /\ init_cash = 0

\* StockVisualization.__init__ when one of its first assertions fails:
\* nothing is assigned, nothing is loaded
SceneInitAssertionError ==
    /\ pc = "new"
    /\ variant \in Growing
    /\ ~ArgsOk(cfg, num_ticks, num_samples)
    /\ pc' = "error"
    /\ err' = "AssertionError"
    /\ UNCHANGED <<cfg, attrs, download, frame, init_cash, variant, tickers, num_ticks, num_samples, csv, X, Y, next_indicies, state, i, plays>>

\* StockVisualization.__init__ when the assertion on the colours fails,
\* after load_data and preprocess_data
SceneInitColorsError ==
    /\ pc = "new"
    /\ variant \in Growing
    /\ ArgsOk(cfg, num_ticks, num_samples)
    /\ ~ColorsOk(cfg.colors, tickers)
    /\ LET idx == sample_indices(Len(csv), num_samples)
       IN /\ X' = iloc(Periods(csv), idx)
          /\ Y' = iloc(csv, idx)
    /\ attrs' = ConfigAttrs \cup DataAttrs
    /\ pc' = "error"
    /\ err' = "AssertionError"
    /\ UNCHANGED <<cfg, download, frame, init_cash, variant, tickers, num_ticks, num_samples, csv, next_indicies, state, i, plays>>

\* Lineplot.__init__ or Barplot.__init__ when one of its assertions fails
PlotInitAssertionError ==
    /\ pc = "new"
    /\ variant \in Plots
    /\ ~PlotArgsOk(cfg, tickers, num_ticks, num_samples)
    /\ pc' = "error"
    /\ err' = "AssertionError"
    /\ UNCHANGED <<cfg, attrs, download, frame, init_cash, variant, tickers, num_ticks, num_samples, csv, X, Y, next_indicies, state, i, plays>>

\* Lineplot.__init__ or Barplot.__init__ when its assertions pass:
\* super().__init__(tickers=..., start=..., ...) hands StockVisualization no
\* path
PlotInitTypeError ==
    /\ pc = "new"
    /\ variant \in Plots
    /\ PlotArgsOk(cfg, tickers, num_ticks, num_samples)
    /\ pc' = "error"
    /\ err' = "TypeError"
    /\ UNCHANGED <<cfg, attrs, download, frame, init_cash, variant, tickers, num_ticks, num_samples, csv, X, Y, next_indicies, state, i, plays>>

NextScene ==
    \/ Next
    \/ SceneInitAssertionError
    \/ SceneInitColorsError
    \/ PlotInitAssertionError
    \/ PlotInitTypeError

\* the four scene classes from the call of their constructor on
SpecScene == InitScene /\ [][NextScene]_vars

\* ----------------------------------------------------------------- float64
\* The float64 numbers of the price tables: NaN, or m * 2^e >= 0 with m odd
\* (0 is the empty m), where m is written as its binary digits, the most
\* significant first.  Arithmetic rounds to Mantissa digits, to nearest, ties
\* to even, as the hardware does.  The prices and init_cash are positive
\* and below 2^Chunk.
Mantissa == 53

Chunk == 14

NaN == [nan |-> TRUE, m |-> <<>>, e |-> 0]

Float(m, e) == [nan |-> FALSE, m |-> m, e |-> e]

\* n < 2^w in w binary digits
Fixed(n, w) == [j \in 1..w |-> (n \div 2^(w - j)) % 2]

\* the binary digits of a natural number n < 2^30, and back
NatBits(n) == Fixed(n, CHOOSE w \in 0..30 : n < 2^w /\ (w = 0 \/ n >= 2^(w - 1)))

RECURSIVE BitsNat(_)
BitsNat(b) == IF b = <<>> THEN 0 ELSE 2 * BitsNat(SubSeq(b, 1, Len(b) - 1)) + b[Len(b)]

\* the places of b that hold digit d
Places(b, d) == {j \in 1..Len(b) : b[j] = d}

\* b * 2^e with the trailing zeros of b moved into the exponent
Canon(b, e) ==
    IF Places(b, 1) = {} THEN Float(<<>>, 0)
    ELSE LET last == CHOOSE j \in Places(b, 1) : \A h \in Places(b, 1) : h <= j
         IN Float(SubSeq(b, 1, last), e + Len(b) - last)

FromInt(n) == Canon(NatBits(n), 0)

\* b + 1
Succ(b) ==
    IF Places(b, 0) = {} THEN <<1>> \o [j \in 1..Len(b) |-> 0]
    ELSE LET z == CHOOSE j \in Places(b, 0) : \A h \in Places(b, 0) : h <= j
         IN [j \in 1..Len(b) |-> IF j < z THEN b[j] ELSE IF j = z THEN 1 ELSE 0]

\* the float64 nearest to b * 2^e (plus a fraction of the last digit when
\* sticky), b starting with 1
Round(b, sticky, e) ==
    IF Len(b) <= Mantissa THEN Canon(b, e)
    ELSE LET keep  == SubSeq(b, 1, Mantissa)
             guard == b[Mantissa + 1]
             rest  == sticky \/ \E j \in (Mantissa + 2)..Len(b) : b[j] = 1
             up    == guard = 1 /\ (rest \/ keep[Mantissa] = 1)
         IN Canon(IF up THEN Succ(keep) ELSE keep, e + Len(b) - Mantissa)

\* 2^j mod p
RECURSIVE Pow2Mod(_, _)
Pow2Mod(j, p) ==
    IF j = 0 THEN 1 % p
    ELSE LET h == Pow2Mod(j \div 2, p)
         IN (h * h * (IF j % 2 = 1 THEN 2 ELSE 1)) % p

\* c / f for an integer c >= 0 and a float64 f > 0 of at most Chunk digits:
\* the long division of c by the digits p of f, Mantissa + 2 digits long
\* from the first 1, and what is left as the sticky digit
Div(c, f) ==
    IF f.nan THEN NaN
    ELSE LET p       == BitsNat(f.m)
             r       == c % p
             int     == NatBits(c \div p)
             frac(j) == (2 * ((r * Pow2Mod(j - 1, p)) % p)) \div p
             first   == IF int # <<>> THEN 0
                        ELSE (CHOOSE j \in 1..(Chunk + 1) : frac(j) = 1 /\ \A h \in 1..(j - 1) : frac(h) = 0) - 1
             J       == first + Mantissa + 2 - Len(int)
             b       == int \o [j \in 1..(J - first) |-> frac(first + j)]
         IN IF r = 0 THEN Canon(int, 0 - f.e)
            ELSE Round(b, (r * Pow2Mod(J, p)) % p # 0, 0 - J - f.e)

\* the digits of b * p + carry, Chunk digits of b at a time
RECURSIVE MulBits(_, _, _)
MulBits(b, p, carry) ==
    IF b = <<>> THEN NatBits(carry)
    ELSE LET n == Len(b)
             w == Min(Chunk, n)
             t == BitsNat(SubSeq(b, n - w + 1, n)) * p + carry
         IN MulBits(SubSeq(b, 1, n - w), p, t \div 2^w) \o Fixed(t % 2^w, w)

\* s * f for float64 s and a float64 f of at most Chunk digits
Times(s, f) ==
    IF s.nan \/ f.nan THEN NaN
    ELSE Round(MulBits(s.m, BitsNat(f.m), 0), FALSE, s.e + f.e)

\* ----------------------------------------------------------------- finance
\* A DataFrame: the column labels, the dtype and the cells of every column,
\* and the row labels.  multi tells a MultiIndex of (field, ticker) column
\* labels from a flat Index of names.
Fields == <<"Close", "High">>

Names == <<"AAPL", "NVDA">>

\* the date of row r, <<year, day of the year>>: two trading days a year
Date(r) == <<2020 + ((r - 1) \div 2), ((r - 1) % 2) + 1>>

\* strftime("%Y") of a date, as an int
Year(d) == d[1]

\* the table yfinance returns for k tickers: one float64 column per field
\* and ticker, field by field
WideFrame(k, cols) ==
    [multi   |-> TRUE,
     columns |-> [j \in 1..(Len(Fields) * k) |-> <<Fields[((j - 1) \div k) + 1], Names[((j - 1) % k) + 1]>>],
     dtypes  |-> [j \in 1..(Len(Fields) * k) |-> "float64"],
     index   |-> [r \in 1..(IF cols = <<>> THEN 0 ELSE Len(cols[1])) |-> Date(r)],
     data    |-> cols]

\* len(df)
Rows(df) == Len(df.index)

\* df[label]
Column(df, label) == df.data[CHOOSE j \in 1..Len(df.columns) : df.columns[j] = label]

\* the distinct members of a sequence, in the order of their first places
Unique(s) ==
    LET first(j) == \A h \in 1..(j - 1) : s[h] # s[j]
        places   == SelectSeq([j \in 1..Len(s) |-> j], first)
    IN [t \in 1..Len(places) |-> s[places[t]]]

\* list(df.columns.levels[1]): the tickers
Levels1(df) == Unique([j \in 1..Len(df.columns) |-> df.columns[j][2]])

\* the rows of df (1-based) with no NaN in a float64 column, in order
NotNaRows(df) ==
    LET ok(r) == \A j \in 1..Len(df.columns) : df.dtypes[j] = "float64" => ~df.data[j][r].nan
    IN SelectSeq([r \in 1..Rows(df) |-> r], ok)

\* df.dropna()
dropna(df) ==
    LET keep == NotNaRows(df)
    IN [df EXCEPT !.index = [t \in 1..Len(keep) |-> df.index[keep[t]]],
                  !.data  = [j \in 1..Len(df.columns) |-> [t \in 1..Len(keep) |-> df.data[j][keep[t]]]]]

\* pd.DataFrame(data) of preprocess_stock_data: "Year" and one column per
\* ticker, under the row labels 0 .. n - 1
Selected(df, column) ==
    LET names == Levels1(df)
    IN [multi   |-> FALSE,
        columns |-> <<"Year">> \o names,
        dtypes  |-> <<"int64">> \o [j \in 1..Len(names) |-> "float64"],
        index   |-> arange(Rows(df)),
        data    |-> <<[r \in 1..Rows(df) |-> Year(df.index[r])]>>
                    \o [j \in 1..Len(names) |-> Column(df, <<column, names[j]>>)]]

preprocess_stock_data_DropFirst(df, column) == Selected(dropna(df), column)

preprocess_stock_data(df, column) == dropna(Selected(df, column))

\* preprocess_portfolio_value on a table of at least one row: the first
\* column is left alone, every other one is multiplied by its shares
preprocess_portfolio_value(df, cash) ==
    LET shares == [j \in 1..Len(df.columns) |-> IF j = 1 THEN NaN ELSE Div(cash, df.data[j][1])]
    IN [df EXCEPT !.data = [j \in 1..Len(df.columns) |->
           IF j = 1 THEN df.data[1]
           ELSE [r \in 1..Rows(df) |-> Times(shares[j], df.data[j][r])]]]

\* the cells of the downloaded tables: the Close column has a price or
\* none, the High column one of two prices or none
ClosePrices == {NaN, FromInt(1)}

HighPrices == {NaN, FromInt(1), FromInt(139)}

\* the downloads of k tickers and n rows
Downloads(k, n) ==
    {WideFrame(k, close \o high) : close \in [1..k -> [1..n -> ClosePrices]],
                                   high \in [1..k -> [1..n -> HighPrices]]}

InitFinance ==
    /\ \E k \in TickerCounts : \E n \in 0..(MaxFrameCells \div k) : download \in Downloads(k, n)
    /\ frame = download
    /\ init_cash \in {1, 10000}
    /\ pc = "loaded"
    /\ err = ""
    /\ variant = "line"
    /\ tickers = 1
    /\ num_ticks = 1
    /\ num_samples = 1
    /\ csv = <<>>
    /\ X = <<>>
    /\ Y = <<>>
    /\ next_indicies = 0
    /\ state = NoState
    /\ i = 0
    /\ plays = <<>>
    /\ cfg = DefaultConfig
    /\ attrs = {}

\* df = preprocess_stock_data(df, column="High") on the download
PreprocessStockData ==
    /\ pc = "loaded"
    /\ frame.multi
    /\ frame' = preprocess_stock_data(frame, "High")
    /\ pc' = "flat"
    /\ UNCHANGED <<cfg, attrs, download, init_cash, variant, tickers, num_ticks, num_samples, csv, X, Y, next_indicies, state, i, plays, err>>

\* the same on a flat table: a flat Index of names has no levels
PreprocessStockDataFlat ==
    /\ pc \in {"flat", "value"}
    /\ ~frame.multi
    /\ pc' = "error"
    /\ err' = "AttributeError"
    /\ UNCHANGED <<cfg, attrs, download, frame, init_cash, variant, tickers, num_ticks, num_samples, csv, X, Y, next_indicies, state, i, plays>>

\* df = preprocess_portfolio_value(df, init_cash) on the flat table
PreprocessPortfolioValue ==
    /\ pc = "flat"
    /\ Rows(frame) > 0
    /\ frame' = preprocess_portfolio_value(frame, init_cash)
    /\ pc' = "value"
    /\ UNCHANGED <<cfg, attrs, download, init_cash, variant, tickers, num_ticks, num_samples, csv, X, Y, next_indicies, state, i, plays, err>>

\* the same on a table of no rows: .iloc[0] is out of bounds
PreprocessPortfolioValueEmpty ==
    /\ pc = "flat"
    /\ Rows(frame) = 0
    /\ pc' = "error"
    /\ err' = "IndexError"
    /\ UNCHANGED <<cfg, attrs, download, frame, init_cash, variant, tickers, num_ticks, num_samples, csv, X, Y, next_indicies, state, i, plays>>

NextFinance ==
    \/ PreprocessStockData
    \/ PreprocessStockDataFlat
    \/ PreprocessPortfolioValue
    \/ PreprocessPortfolioValueEmpty

\* the functions of util/finance.py on downloads of up to MaxFrameCells
\* cells a field
SpecFinance == InitFinance /\ [][NextFinance]_vars

\* ------------------------------------------------------------ growth loop
\* the largest element of a non-empty finite set of integers
SetMax(S) == CHOOSE m \in S : \A x \in S : x <= m

\* the cells of rows [0, k) of self.Y
Cells(k) == {Y[r][c] : r \in 1..k, c \in 1..tickers}

\* the number of rows in the window of step j: [0, min(j + next_indicies, len(data)))
Window(j) == Min(j + next_indicies, Len(Y))

\* this step is iteration i of the growth loop, whether or not manim takes
\* the axes of the new State
IsGrowStep == pc = "loop" /\ i < Len(Y) /\ (i' = i + 1 \/ pc' = "error")

\* `state` is the initial State: no iteration has touched it
AtInitialState == (pc = "loop" /\ i = 1) \/ (pc = "error" /\ i = 0 /\ state # NoState)

\* the last row the State has been computed for: row 0 for the initial
\* State, row i in iteration i
Revealed == IF pc = "error" THEN i ELSE i - 1

\* a run in which the look-ahead is at least one row and no State has an
\* empty axis range: the initial x_max and y_max are above 0
LookAhead == next_indicies >= 1 /\ state # NoState /\ SeqMax(Y[3 * next_indicies + 1]) > 0

\* C1: a step i whose largest value is >= y_max ends with num_y_ticks =
\* min(old num_y_ticks + 1, num_ticks) and y_max = the largest cell of rows
\* [0, min(i + next_indicies, len(data))); the x-axis of the line variant
\* does the same with the row index i as its value
C1_RescaleRule ==
    [][IsGrowStep =>
        /\ SeqMax(Y[i + 1]) >= state.y_max =>
            /\ state'.num_y_ticks = Min(state.num_y_ticks + 1, num_ticks)
            /\ state'.y_max = SetMax(Cells(Window(i)))
        /\ (variant = "line" /\ i >= state.x_max) =>
            /\ state'.num_x_ticks = Min(state.num_x_ticks + 1, num_ticks)
            /\ state'.x_max = SetMax({r - 1 : r \in 1..Window(i)})]_vars

\* steps have rescaled both axes: the tick counts grew, y_max is above the
\* initial one and x_max is past the initial window
C1_Witness ==
    /\ pc = "loop"
    /\ i >= 2
    /\ LookAhead
    /\ state.num_y_ticks = InitialTicks + 1
    /\ state.num_x_ticks = InitialTicks + 1
    /\ state.y_max > SeqMax(Y[3 * next_indicies + 1])
    /\ state.x_max > 3 * next_indicies

\* C2: the initial State has min 0 and 3 ticks on each axis, and max = the
\* largest value of the initial look-ahead window, rows 0 through
\* 3 * next_indicies
C2_InitialWindowMax ==
    AtInitialState =>
        /\ state.y_min = 0
        /\ state.num_y_ticks = 3
        /\ state.y_max = SetMax(Cells(3 * next_indicies + 1))
        /\ variant = "line" =>
            /\ state.x_min = 0
            /\ state.num_x_ticks = 3
            /\ state.x_max = 3 * next_indicies

\* C3: no tick count of a State exceeds num_ticks
C3_TicksWithinCeiling ==
    state # NoState =>
        /\ state.num_y_ticks <= num_ticks
        /\ variant = "line" => state.num_x_ticks <= num_ticks

\* C3: and no step decreases a tick count
C3_TicksMonotone ==
    [][IsGrowStep =>
        /\ state'.num_y_ticks >= state.num_y_ticks
        /\ variant = "line" => state'.num_x_ticks >= state.num_x_ticks]_vars

\* C4: from the initial State on, no step decreases x_max or y_max
C4_MaxMonotone ==
    [][IsGrowStep =>
        /\ state'.y_max >= state.y_max
        /\ variant = "line" => state'.x_max >= state.x_max]_vars

\* both maxima have grown above those of the initial State
C4_Witness ==
    /\ pc = "loop"
    /\ i >= 2
    /\ LookAhead
    /\ state.y_max > SeqMax(Y[3 * next_indicies + 1])
    /\ state.x_max > 3 * next_indicies
    /\ \E r \in 1..Len(Y) : SeqMax(Y[r]) < state.y_max

\* C5: no revealed point is clipped: every value of rows 0..i is <= y_max
\* and every revealed index is <= x_max
C5_NeverClipped ==
    state # NoState =>
        \A j \in 0..Revealed :
            /\ \A t \in 1..tickers : Y[j + 1][t] <= state.y_max
            /\ variant = "line" => j <= state.x_max

\* C6: a step whose row value is strictly below the max of an axis leaves
\* the min, max and tick count of that axis as they were, whatever the other
\* axis does
C6_BelowMaxUnchanged ==
    [][IsGrowStep =>
        /\ SeqMax(Y[i + 1]) < state.y_max =>
            /\ state'.y_min = state.y_min
            /\ state'.y_max = state.y_max
            /\ state'.num_y_ticks = state.num_y_ticks
        /\ (variant = "line" /\ i < state.x_max) =>
            /\ state'.x_min = state.x_min
            /\ state'.x_max = state.x_max
            /\ state'.num_x_ticks = state.num_x_ticks]_vars

\* after steps 1 and 2 the y-axis has been rescaled and the x-axis is as it
\* was in the initial State
C6_Witness ==
    /\ pc = "loop"
    /\ i = 3
    /\ LookAhead
    /\ state.num_y_ticks > InitialTicks
    /\ state.num_x_ticks = InitialTicks
    /\ state.x_max = 3 * next_indicies
    /\ SeqMax(Y[3]) < state.y_max

\* C7: x_min and y_min are 0 in every State
C7_MinZero ==
    state # NoState =>
        /\ state.y_min = 0
        /\ variant = "line" => state.x_min = 0

\* both axes have been rescaled
C7_Witness ==
    /\ pc = "loop"
    /\ LookAhead
    /\ state.num_y_ticks > InitialTicks
    /\ state.num_x_ticks > InitialTicks

\* C8: in one step a tick count grows by 0 or by 1, and by 0 once it is at
\* num_ticks
C8_OneShot ==
    [][IsGrowStep =>
        /\ state'.num_y_ticks - state.num_y_ticks \in {0, 1}
        /\ state.num_y_ticks >= num_ticks => state'.num_y_ticks = state.num_y_ticks
        /\ variant = "line" =>
            /\ state'.num_x_ticks - state.num_x_ticks \in {0, 1}
            /\ state.num_x_ticks >= num_ticks => state'.num_x_ticks = state.num_x_ticks]_vars

\* the x-axis has been rescaled twice, the second time at the ceiling
C8_Witness ==
    /\ pc = "loop"
    /\ LookAhead
    /\ num_ticks = InitialTicks + 1
    /\ i >= 3 * next_indicies + 2
    /\ state.num_x_ticks = num_ticks

\* ---------------------------------------------------------------- sampling
\* preprocess_data has run
Sampled == pc = "ready"

\* C9: for 1 <= m <= n the sampling keeps exactly m rows, at strictly
\* increasing indices that start at 0 and end at n - 1
C9_BothEndpoints ==
    (Sampled /\ num_samples <= Len(csv)) =>
        /\ Len(X) = num_samples
        /\ \A a, b \in 1..Len(X) : a < b => X[a] < X[b]
        /\ X[1] = 0
        /\ X[Len(X)] = Len(csv) - 1

\* C9, amended: the last index is n - 1 when m >= 2 or n = 1; with m = 1
\* the one index is 0
C9_EndpointsFromTwo ==
    (Sampled /\ num_samples <= Len(csv)) =>
        /\ Len(X) = num_samples
        /\ \A a, b \in 1..Len(X) : a < b => X[a] < X[b]
        /\ X[1] = 0
        /\ (num_samples >= 2 \/ Len(csv) = 1) => X[Len(X)] = Len(csv) - 1
        /\ num_samples = 1 => X = <<0>>

\* a proper subsample: more than two and fewer than all rows are kept, and
\* the spacing is uneven
C9_Witness ==
    /\ Sampled
    /\ 2 < num_samples
    /\ num_samples < Len(csv)
    /\ \E a \in 1..(Len(X) - 2) : X[a + 1] - X[a] # X[a + 2] - X[a + 1]

\* C10: min(num_samples, n) rows are kept, in the order of the file
C10_SampleCount ==
    Sampled =>
        /\ Len(X) = Min(num_samples, Len(csv))
        /\ Len(Y) = Len(X)
        /\ \A a, b \in 1..Len(X) : a < b => X[a] < X[b]

\* fewer rows than samples: every row is kept
C10_Witness ==
    /\ Sampled
    /\ 1 < Len(csv)
    /\ Len(csv) < num_samples
    /\ Len(X) = Len(csv)
    /\ X[Len(X)] = Len(csv) - 1

\* C11: with num_samples >= n the sampling keeps every row (the indices are
\* 0 .. n - 1), and sampling the sampled rows again with the same
\* num_samples gives the same rows
C11_SamplingIdempotent ==
    Sampled =>
        /\ num_samples >= Len(csv) => (X = Periods(csv) /\ Y = csv)
        /\ iloc(X, sample_indices(Len(X), num_samples)) = X
        /\ iloc(Y, sample_indices(Len(Y), num_samples)) = Y

\* a proper subsample has been taken, and as many rows as num_samples remain
C11_Witness ==
    /\ Sampled
    /\ 2 < num_samples
    /\ num_samples < Len(csv)
    /\ Len(X) = num_samples
    /\ sample_indices(Len(X), num_samples) = arange(num_samples)

\* ----------------------------------------------------------------- finance
\* the number of tickers of the download, and the High column of ticker j
DownloadTickers == Len(download.columns) \div Len(Fields)

High(j) == Column(download, <<"High", Names[j]>>)

\* the rows of the download (1-based) whose High price is there for every
\* ticker
HighRows == {r \in 1..Rows(download) : \A j \in 1..DownloadTickers : ~High(j)[r].nan}

\* no cell of the download is missing
NoMissing == \A j \in 1..Len(download.columns) : \A r \in 1..Rows(download) : ~download.data[j][r].nan

\* C12: the flat table has the columns X, Y0, Y1, ... and, when no value is
\* missing, as many rows as the download
C12_FlatColumns ==
    pc = "flat" =>
        /\ frame.columns = <<"X">> \o Prefix(<<"Y0", "Y1">>, DownloadTickers)
        /\ NoMissing => Rows(frame) = Rows(download)

\* C13: the flat table keeps exactly the rows whose High price is there for
\* every ticker, in order and with the values of the download
C13_DropsMissingRows ==
    pc = "flat" =>
        /\ Rows(frame) = Cardinality(HighRows)
        /\ \A t \in 1..Rows(frame) : frame.index[t] + 1 \in HighRows
        /\ \A t, u \in 1..Rows(frame) : t < u => frame.index[t] < frame.index[u]
        /\ \A t \in 1..Rows(frame) :
            /\ frame.data[1][t] = Year(download.index[frame.index[t] + 1])
            /\ \A j \in 1..DownloadTickers : frame.data[j + 1][t] = High(j)[frame.index[t] + 1]

\* the third row of four has no High price and is dropped; the first row
\* has no Close price and is kept
C13_Witness ==
    /\ pc = "flat"
    /\ DownloadTickers = 1
    /\ High(1) = <<FromInt(1), FromInt(139), NaN, FromInt(1)>>
    /\ Column(download, <<"Close", Names[1]>>)[1].nan
    /\ frame.index = <<0, 1, 3>>
    /\ frame.data[2] = <<FromInt(1), FromInt(139), FromInt(1)>>

\* C14: preprocess_stock_data on a flat table returns it (and so does not
\* raise)
C14_ReshapeIdempotent == ~(pc = "error" /\ ~frame.multi /\ err = "AttributeError")

\* C15: after preprocess_portfolio_value the first row of every ticker
\* column is init_cash, and the first column is as it was
C15_FirstRowIsInitCash ==
    pc = "value" =>
        /\ \A j \in 2..Len(frame.columns) : frame.data[j][1] = FromInt(init_cash)
        /\ \A t \in 1..Rows(frame) : frame.data[1][t] = Year(download.index[frame.index[t] + 1])

\* ------------------------------------------------------------ constructors
\* a run time or the camera scale is <= 0, or num_ticks or num_samples is
Rejected ==
    \/ cfg.background_run_time <= 0
    \/ cfg.animation_run_time <= 0
    \/ cfg.wait_run_time <= 0
    \/ cfg.camera_scale <= 0
    \/ num_ticks <= 0
    \/ num_samples <= 0

\* C16: a rejected configuration ends in an AssertionError, and before
\* that no attribute is assigned and no data is loaded
C16_EagerAssertions ==
    Rejected =>
        /\ pc \in {"new", "error"}
        /\ pc = "new" => ENABLED (SceneInitAssertionError \/ PlotInitAssertionError)
        /\ pc = "error" => err = "AssertionError"
        /\ attrs = {}
        /\ X = <<>>
        /\ Y = <<>>

\* StockVisualization.__init__ has failed for wait_run_time = 0 alone, with
\* a file of rows at an existing .csv path
C16_Witness ==
    /\ variant \in Growing
    /\ pc = "error"
    /\ err = "AssertionError"
    /\ cfg = [DefaultConfig EXCEPT !.wait_run_time = 0]
    /\ num_ticks > 0
    /\ num_samples > 0
    /\ Len(csv) > 0
    /\ "df" \notin attrs

\* the number of colours the check is about: those supplied, or those of
\* the default palette
NumColors == IF cfg.colors.kind = "None" THEN Len(DefaultColors) ELSE Len(cfg.colors.list)

\* the constructor has come to its check of the colours, and has passed it
AtColorCheck ==
    \/ variant \in Growing /\ "df" \in attrs
    \/ variant \in Plots /\ pc = "error" /\ tickers < 4 /\ ~Rejected

PassedColorCheck ==
    \/ variant \in Growing /\ "colors" \in attrs
    \/ variant \in Plots /\ err = "TypeError"

\* C17: the check of the colours passes when there are at least as many
\* colours as tickers, and fails when there are fewer
C17_ColorsCover == AtColorCheck => (PassedColorCheck <=> NumColors >= tickers)

\* C17, amended: StockVisualization wants exactly as many supplied colours
\* as tickers, and cuts its default palette to the tickers; Lineplot and
\* Barplot want at least as many supplied colours as tickers
C17_ColorsMatch ==
    AtColorCheck =>
        /\ (variant \in Growing /\ cfg.colors.kind = "None") => (PassedColorCheck <=> tickers <= Len(DefaultColors))
        /\ (variant \in Growing /\ cfg.colors.kind # "None") => (PassedColorCheck <=> NumColors = tickers)
        /\ (variant \in Plots /\ cfg.colors.kind = "None") => PassedColorCheck
        /\ (variant \in Plots /\ cfg.colors.kind # "None") => (PassedColorCheck <=> NumColors >= tickers)

\* StockVisualization.__init__ has failed on a list of more colours than
\* tickers, after it loaded the file
C17_Witness ==
    /\ variant \in Growing
    /\ pc = "error"
    /\ err = "AssertionError"
    /\ cfg.colors.kind = "list"
    /\ Len(cfg.colors.list) > tickers
    /\ "df" \in attrs
    /\ "colors" \notin attrs

\* the path does not exist or does not end in .csv, or the file has no rows
DataError ==
    /\ variant \in Growing
    /\ \/ ~cfg.path.exists
       \/ cfg.path.suffix # ".csv"
       \/ Len(csv) = 0

\* C18: with a data error the scene issues no play and draws no State, and
\* it can only go on to an error
C18_DataErrorFatal ==
    DataError =>
        /\ plays = <<>>
        /\ state = NoState
        /\ pc \in {"new", "ready", "error"}
        /\ pc = "error" => err \in {"AssertionError", "IndexError"}
        /\ pc # "error" => ENABLED NextScene

\* construct has failed on a file of no rows at an existing .csv path
C18_Witness ==
    /\ variant \in Growing
    /\ pc = "error"
    /\ err = "IndexError"
    /\ cfg.path = DefaultConfig.path
    /\ Len(csv) = 0
    /\ "df" \in attrs
    /\ plays = <<>>

\* C19: a State with a tick of 0 is never made, the constructor refuses the
\* configuration first
C19_ZeroRangeRejected ==
    /\ state # NoState => ~ZeroTick(state)
    /\ (pc = "ready" /\ 3 * next_indicies <= Len(Y) - 1) =>
           ~ZeroTick(InitialState(variant, X_indices, Y, next_indicies))

\* C20: Barplot passes its assertions for five tickers, Lineplot for three,
\* with positive run times and num_samples = 10
C20_TickerLists ==
    (/\ \/ variant = "Barplot" /\ tickers = 5
        \/ variant = "Lineplot" /\ tickers = 3
     /\ cfg = DefaultConfig
     /\ num_ticks > 0
     /\ num_samples = TestSamples
     /\ pc = "error") => err # "AssertionError"

\* the sum of two run times
Plus(p, q) == Ratio(p.num * q.den + q.num * p.den, p.den * q.den)

\* the sum of the run times of the plays s
RECURSIVE Duration(_)
Duration(s) == IF s = <<>> THEN Ratio(0, 1) ELSE Plus(s[1].run_time, Duration(Tail(s)))

\* the growth plays of the scene so far
GrowthPlays == SelectSeq(plays, LAMBDA p : p.anim = "Grow")

\* C21: when the scene is over, the run times of its growth steps add up to
\* animation_run_time, whatever the length of the series
C21_GrowthDuration ==
    pc = "done" =>
        Duration(GrowthPlays).num = cfg.animation_run_time * Duration(GrowthPlays).den

\* what the plays so far are and show: the animation, and how many samples
\* of each ticker are on screen (0 for the fade-out, which shows no graph)
Issued == [k \in 1..Len(plays) |-> <<plays[k].anim, plays[k].shown>>]

\* the sequence a run over Y is to issue: the background with sample 0, a
\* growth play for each i of 1..len - 1 showing samples 0..i, the fade-out
Expected ==
    <<<<"Write", 1>>>> \o [k \in 1..(Len(Y) - 1) |-> <<"Grow", k + 1>>] \o <<<<"FadeOut", 0>>>>

\* the run of construct is over, other than by an error the data caused
\* (a missing row 3 * next_indicies, an axis range of step 0)
RunOver == pc = "done" \/ (pc = "error" /\ err \notin {"IndexError", "ZeroRange"})

\* C22: the plays of a run are at any time the first plays of the fixed
\* sequence background, growth 1 .. len - 1, fade-out, and a run that is over
\* has issued all of it in both variants
C22_FixedSequence ==
    /\ pc \in {"loop", "done", "error"} =>
           /\ Len(Issued) <= Len(Expected)
           /\ Issued = SubSeq(Expected, 1, Len(Issued))
    /\ RunOver => Issued = Expected

\* the part of C22 that holds: in the line variant
C22_LineSequence ==
    /\ pc \in {"loop", "done", "error"} =>
           /\ Len(Issued) <= Len(Expected)
           /\ Issued = SubSeq(Expected, 1, Len(Issued))
    /\ (RunOver /\ variant = "line") => Issued = Expected

\* the State on screen has been materialized by the last play: the axes of
\* the background or of a growth step of GrowingLineplot
Materialized == pc = "loop" /\ variant = "line" /\ plays[Len(plays)].ax # NoAxes

\* the axes the last play put on screen
Shown == plays[Len(plays)].ax

\* the ranges and the x labels of the axes shown are those of the current
\* State: step (max - min) / num_ticks, num_ticks labels per axis, the x
\* labels the X values at the truncated positions k * step
RangesAndXLabels ==
    /\ Shown.x_range = <<state.x_min, state.x_max, Ratio(state.x_max - state.x_min, state.num_x_ticks)>>
    /\ Shown.y_range = <<state.y_min, state.y_max, Ratio(state.y_max - state.y_min, state.num_y_ticks)>>
    /\ Len(Shown.x_labels) = state.num_x_ticks
    /\ Len(Shown.y_labels) = state.num_y_ticks
    /\ \A k \in 1..state.num_x_ticks :
           Shown.x_labels[k] =
               X[((state.num_x_ticks * state.x_min + k * (state.x_max - state.x_min))
                     \div state.num_x_ticks) + 1]

\* 100 * num_y_ticks times the k-th of the evenly spaced y positions past y_min
Position100(k) == 100 * (state.num_y_ticks * state.y_min + k * (state.y_max - state.y_min))

\* C23: the axes of a State have the range [min, max, (max - min) / num_ticks]
\* and num_ticks labels per axis; the y labels are the evenly spaced
\* positions after the first, the x labels the X values at the truncated
\* positions
C23_LabelsAtPositions ==
    Materialized =>
        /\ RangesAndXLabels
        /\ \A k \in 1..state.num_y_ticks :
               Shown.y_labels[k].num * state.num_y_ticks = Shown.y_labels[k].den * (Position100(k) \div 100)

\* C23, amended: the same, with the y labels the evenly spaced positions
\* rounded to two decimals: each is a number of hundredths at most 1/200
\* from its position, and the last one is y_max
C23_LabelsRounded ==
    Materialized =>
        /\ RangesAndXLabels
        /\ \A k \in 1..state.num_y_ticks :
               /\ Shown.y_labels[k].den = 100
               /\ 2 * (Shown.y_labels[k].num * state.num_y_ticks - Position100(k)) <= state.num_y_ticks
               /\ 2 * (Position100(k) - Shown.y_labels[k].num * state.num_y_ticks) <= state.num_y_ticks
        /\ Shown.y_labels[state.num_y_ticks] = Ratio(100 * state.y_max, 100)

\* a growth step has put axes on screen whose first y position, 1/3, is not
\* a number of hundredths, and whose x labels are not all the same
C23_Witness ==
    /\ Materialized
    /\ i > 1
    /\ state.y_max = 1
    /\ state.num_y_ticks = 3
    /\ Shown.y_labels = <<Ratio(33, 100), Ratio(67, 100), Ratio(100, 100)>>
    /\ Shown.x_labels[1] # Shown.x_labels[state.num_x_ticks]

\* C24: in the bar variant a State that has been built is materialized by
\* State.barchart without an error
C24_BarchartMaterializes ==
    (variant = "bar" /\ state # NoState) => ~(pc = "error" /\ err = "TypeError")

\* the fields the replace calls of loop iteration i name: those of "Scale
\* y-axis" when row i reaches y_max, those of "Scale x-axis" when index i
\* reaches x_max
Named ==
    (IF SeqMax(Y[i + 1]) >= state.y_max
     THEN {"y_max"} \cup (IF state.num_y_ticks < num_ticks THEN {"num_y_ticks"} ELSE {})
     ELSE {})
    \cup
    (IF variant = "line" /\ X_indices[i + 1] >= state.x_max
     THEN {"x_max"} \cup (IF state.num_x_ticks < num_ticks THEN {"num_x_ticks"} ELSE {})
     ELSE {})

\* C25: a growth step gives the driver a new State with the same fields,
\* which differs from the State before only in the fields its replace calls
\* name; what earlier plays showed of earlier States stays as it was
C25_ReplaceOnlyNamed ==
    [][IsGrowStep =>
          /\ DOMAIN state' = DOMAIN state
          /\ \A f \in DOMAIN state \ Named : state'[f] = state[f]
          /\ \A k \in 1..Len(plays) : plays'[k] = plays[k]]_vars

\* after the first growth step: it has replaced y_max and left the x fields,
\* which no replace call named, as they were first built
C25_Witness ==
    /\ pc = "loop"
    /\ i = 2
    /\ next_indicies >= 1
    /\ state.y_max # SeqMax(Y[3 * next_indicies + 1])
    /\ state.x_max = 3 * next_indicies
    /\ state.num_x_ticks = InitialTicks
    /\ plays[1].ax.y_range[2] # state.y_max

\* C26: every State of either variant has at least one tick on each of its
\* axes, so x_tick and y_tick never divide by 0
C26_TicksPositive ==
    state # NoState =>
        /\ state.num_y_ticks >= 1
        /\ variant = "line" => state.num_x_ticks >= 1

\* a State after a growth step, under the smallest num_ticks that gets as
\* far as a growth step
C26_Witness ==
    /\ pc = "loop"
    /\ i > 1
    /\ num_ticks = InitialTicks
    /\ state.num_x_ticks = InitialTicks
    /\ state.num_y_ticks = InitialTicks

\* C27: on a file that has rows, row 3 * floor(num_samples / num_ticks) of
\* the sampled data exists, and construct does not end with an IndexError
C27_InitialRowExists ==
    (Len(csv) > 0 /\ pc # "new") =>
        /\ 3 * (num_samples \div num_ticks) <= Len(Y) - 1
        /\ ~(pc = "error" /\ err = "IndexError")

\* x_max of the State st is an index of X, and so is every index
\* add_x_labels computes for st
ValidXLabels(st) ==
    /\ 0 <= st.x_max
    /\ st.x_max <= Len(X) - 1
    /\ \A k \in 1..st.num_x_ticks :
           /\ 0 <= x_label_indices(st.x_min, st.x_max, st.num_x_ticks)[k]
           /\ x_label_indices(st.x_min, st.x_max, st.num_x_ticks)[k] <= Len(X) - 1

\* C28: in GrowingLineplot, x_max of the current State and of the State the
\* next growth step builds lies in 0 .. len(data) - 1, and the indices of
\* their x labels are indices of X
C28_XMaxInRange ==
    /\ (variant = "line" /\ state # NoState) => ValidXLabels(state)
    /\ (variant = "line" /\ pc = "loop" /\ i < Len(Y)) =>
           ValidXLabels(StepState(variant, state, X_indices, Y, i, next_indicies, num_ticks))

\* a growth step has moved x_max from its first value to the last index
C28_Witness ==
    /\ variant = "line"
    /\ pc = "loop"
    /\ i > 1
    /\ state.x_max > 3 * next_indicies
    /\ state.x_max = Len(X) - 1
    /\ Shown.x_labels[state.num_x_ticks] = X[Len(X)]

\* C29: when construct is over, the final State shows the whole series:
\* x_max is the last sample index and y_max the largest sampled value
C29_FinalShowsAll ==
    pc = "done" =>
        /\ state.x_max = Len(X) - 1
        /\ state.y_max = RowsMax(Y, Len(Y))

\* construct is over, and the loop has moved both maxima from their first
\* values: x_max to the last index, y_max to a value that only a row other
\* than row 3 * next_indicies has
C29_Witness ==
    /\ pc = "done"
    /\ Len(plays) = Len(Y) + 1
    /\ state.x_max = Len(X) - 1
    /\ state.x_max > 3 * next_indicies
    /\ state.y_max = RowsMax(Y, Len(Y))
    /\ state.y_max > SeqMax(Y[3 * next_indicies + 1])

\* the State GrowingLineplot.construct has after step k on the data of this
\* run (k = 0: its initial State)
RECURSIVE LineState(_)
LineState(k) ==
    IF k = 0 THEN InitialState("line", X_indices, Y, next_indicies)
    ELSE StepState("line", LineState(k - 1), X_indices, Y, k, next_indicies, num_ticks)

\* the y axis of a State
YAxis(st) == <<st.y_min, st.y_max, st.num_y_ticks>>

\* C30: a run of GrowingBarplot has, at its initial State and after every
\* step, the y axis GrowingLineplot has there on the same data, and where
\* the line run goes through all its steps (a look-ahead, no zero range) the
\* bar run ends only after step len - 1 as well
C30_SameYAxis ==
    (variant = "bar" /\ state # NoState) =>
        /\ YAxis(state) = YAxis(LineState(Revealed))
        /\ (LookAhead /\ pc = "error") => Revealed = Len(Y) - 1

====
